---- MODULE Spec2Model ----
(***************************************************************************)
(* spnoiser: the render loop of app.py (App.mainloop, App._frame, the      *)
(* background playback thread, main) and the screen elements of ui/core.py *)
(* and ui/components.py.                                                   *)
(*                                                                         *)
(* Strings are sequences of one-character strings.  Time is counted in     *)
(* units of 0.2 s, the largest unit in which FRAME_INTERVAL (0.8 s),       *)
(* BEEP_INTERVAL (1.0 s) and the getch timeout (200 ms) are integers.      *)
(* An optional value (int | None, str | None) is a sequence: <<>> is None  *)
(* and <<v>> is the value v.                                               *)
(***************************************************************************)
EXTENDS Integers, Sequences, FiniteSets, TLC

VARIABLES
    \* ---- App and the main thread (app.py) ----
    pc,              \* where the main thread is
    exc,             \* the exception propagating out of the loop, if any
    now,             \* time.monotonic(); MaxClock stands for "MaxClock or later"
    input,           \* what the next stdscr.getch() returns
    noise_text,      \* App._noise_text
    max_time,        \* App._max_time (seconds)
    sound_file_path, \* App._sound_file_path
    beep_enabled,    \* App._beep_enabled, shared with the playback thread
    start_time,      \* App._start_time, <<>> before mainloop sets it
    last_beep,       \* App._last_beep, <<>> before mainloop sets it
    nodelay,         \* stdscr's input mode: TRUE after stdscr.nodelay(True)
    stdscr,          \* the surface: [h, w, cells, log]
    exit_code,       \* what main returns, <<>> while it runs
    \* ---- the playback thread and the audio device (sounddevice) ----
    tpc,             \* where play_sound_block is
    playing,         \* a stream started by sd.play is active
    \* ---- observations of the run ----
    lastFrame,       \* what the latest completed _frame call did
    cues,            \* the times of the last two curses.beep() attempts
    \* ---- the element operations applied on their own (DrawSpec) ----
    applied          \* the latest element operation, its inputs and its result

vars == <<pc, exc, now, input, noise_text, max_time, sound_file_path,
          beep_enabled, start_time, last_beep, nodelay, stdscr, exit_code,
          tpc, playing, lastFrame, cues, applied>>

loopVars == <<pc, exc, now, input, noise_text, max_time, sound_file_path,
              beep_enabled, start_time, last_beep, nodelay, stdscr, exit_code,
              tpc, playing, lastFrame, cues>>

(***************************************************************************)
(* Bounds of the model.                                                    *)
(***************************************************************************)
MaxTime == 2        \* max_time ranges over -1 .. MaxTime seconds
ClockSlack == 2     \* clock units modelled past the latest timer expiry
MaxHeight == 6      \* element and surface heights range over 0 .. MaxHeight
MaxWidth == 8       \* element and surface widths range over 0 .. MaxWidth
MaxNoiseLen == 2    \* noise texts are the strings over {a, b} up to this length
MaxTextLen == 4     \* texts handed to _draw_str on its own, up to this length

(***************************************************************************)
(* Generic helpers.                                                        *)
(***************************************************************************)
Min(a, b) == IF a <= b THEN a ELSE b

Max(a, b) == IF a >= b THEN a ELSE b

None == <<>>

Some(v) == <<v>>

\* Python's s[:n]: the first n characters, or all but the last -n when n < 0.
Slice(s, n) ==
    IF n >= 0 THEN SubSeq(s, 1, Min(n, Len(s)))
    ELSE SubSeq(s, 1, Max(0, Len(s) + n))

\* Python's s * n: n copies of s, the empty string when n <= 0.
RECURSIVE Repeat(_, _)
Repeat(s, n) == IF n <= 0 THEN <<>> ELSE s \o Repeat(s, n - 1)

\* The strings over the alphabet A of length exactly n, and up to n.
RECURSIVE StringsOfLen(_, _)
StringsOfLen(A, n) ==
    IF n = 0 THEN {<<>>}
    ELSE {s \o <<c>> : s \in StringsOfLen(A, n - 1), c \in A}

StringsUpTo(A, n) == UNION {StringsOfLen(A, k) : k \in 0..n}

DigitChars == <<"0", "1", "2", "3", "4", "5", "6", "7", "8", "9">>

\* Python's str(n) / f"{n}" for an integer.
RECURSIVE str_nat(_)
str_nat(n) ==
    IF n < 10 THEN <<DigitChars[n + 1]>>
    ELSE str_nat(n \div 10) \o <<DigitChars[(n % 10) + 1]>>

str_int(n) == IF n < 0 THEN <<"-">> \o str_nat(-n) ELSE str_nat(n)

\* Python's f"{n:02d}": the decimal text, zero-padded on the left to width 2.
fmt_02d(n) ==
    LET t == str_nat(IF n < 0 THEN -n ELSE n) IN
    IF n < 0 THEN <<"-">> \o t
    ELSE IF Len(t) < 2 THEN <<"0">> \o t ELSE t

(***************************************************************************)
(* ui/core.py: Vector2D, Rect.                                             *)
(***************************************************************************)
Vector2D(y, x) == [y |-> y, x |-> x]

Rect(offset, size) == [offset |-> offset, size |-> size]

from_dimensions(y, x, height, width) == Rect(Vector2D(y, x), Vector2D(height, width))

(***************************************************************************)
(* The terminal surface (a curses window): h rows of w cells, kept row by  *)
(* row in cells, and log, the addstr calls made on it since it was erased: *)
(* who called, the absolute position, the text.                            *)
(***************************************************************************)
Blank == " "

\* The cell index an addstr call's k-th character (k = 1 ..) lands on.
RunsOver(S, call, i) ==
    /\ call.y >= 0 /\ call.y < S.h /\ call.x >= 0 /\ call.x < S.w
    /\ i - 1 >= call.y * S.w + call.x
    /\ i - 1 < call.y * S.w + call.x + Len(call.s)

\* stdscr.addstr(y, x, s), call after call: the text goes to (y, x) and the
\* cells after it, running on to the next row at the right margin and ending
\* at the window's last cell; a call at a position off the window writes
\* nothing.  (Its curses.error is dropped by _draw_str.)  A later call
\* overwrites an earlier one.
addstr_all(S, calls) ==
    [S EXCEPT
       !.log = @ \o calls,
       !.cells = [i \in 1..(S.h * S.w) |->
                    LET over == {k \in 1..Len(calls) : RunsOver(S, calls[k], i)} IN
                    IF over = {} THEN S.cells[i]
                    ELSE LET k == CHOOSE k \in over : \A j \in over : j <= k IN
                         calls[k].s[i - (calls[k].y * S.w + calls[k].x)]]]

NewSurface(h, w) ==
    [h |-> h, w |-> w, cells |-> [i \in 1..(h * w) |-> Blank], log |-> <<>>]

\* stdscr.erase(): every cell blank.
erase(S) == NewSurface(S.h, S.w)

CellAt(S, r, c) == S.cells[r * S.w + c + 1]

(***************************************************************************)
(* What a draw() does: the addstr calls it makes, in order, and the        *)
(* exception it raises, if any ("none" when it returns).                   *)
(***************************************************************************)
Nothing == [log |-> <<>>, exc |-> "none"]

Raise(failure) == [log |-> <<>>, exc |-> failure]

\* Statement a, then the statements b: b runs only when a did not raise.
Then(a, b) == IF a.exc # "none" THEN a ELSE [b EXCEPT !.log = a.log \o @]

(***************************************************************************)
(* spnoiser.utils.require(condition, message): the check that raises when  *)
(* its condition is false.  The failure it raises is named by the caller.  *)
(***************************************************************************)
require(condition, failure) == IF condition THEN "none" ELSE failure

(***************************************************************************)
(* ui/core.py: ScreenElement.                                              *)
(***************************************************************************)
\* ScreenElement._abs_coords: the failure raised ("none" when in bounds).
abs_coords_check(area, y, x) ==
    IF require(0 <= y /\ y < area.size.y, "BoundsError") # "none"
    THEN require(0 <= y /\ y < area.size.y, "BoundsError")
    ELSE require(0 <= x /\ x < area.size.x, "BoundsError")

\* ScreenElement._abs_coords: the absolute position.
abs_coords(area, y, x) == Vector2D(area.offset.y + y, area.offset.x + x)

\* ScreenElement._draw_str, line 139: string[:width].
draw_str_text(area, string) == Slice(string, area.size.x)

\* ScreenElement._draw_str with the default on_curses_error (None): a
\* curses.error from addstr is dropped, a failure of _abs_coords is not.
\* The call is logged with the element that made it (its class and its
\* absolute area, self._area).
draw_str(who, area, y, x, string) ==
    IF abs_coords_check(area, y, x) # "none"
    THEN Raise(abs_coords_check(area, y, x))
    ELSE [log |-> <<[by |-> who, area |-> area,
                     y |-> abs_coords(area, y, x).y,
                     x |-> abs_coords(area, y, x).x,
                     s |-> draw_str_text(area, string)]>>,
          exc |-> "none"]

\* A variant of inner_area that places every child at the parent's offset.
inner_area_at_parent_offset(self_area, area) ==
    Rect(Vector2D(self_area.offset.y, self_area.offset.x),
         Vector2D(Min(self_area.size.y, area.size.y),
                  Min(self_area.size.x, area.size.x)))

\* ScreenElement._inner_area: offsets add, sizes clamp to the parent's.
inner_area(self_area, area) ==
    Rect(Vector2D(self_area.offset.y + area.offset.y,
                  self_area.offset.x + area.offset.x),
         Vector2D(Min(self_area.size.y, area.size.y),
                  Min(self_area.size.x, area.size.x)))

\* ScreenElement._draw_sub_in / _draw_sub: the area the child gets
\* (relative_area is None for _draw_sub).
draw_sub_in_area(self_area, relative_area) ==
    IF relative_area = None THEN self_area
    ELSE inner_area(self_area, relative_area[1])

\* max_area_of(stdscr)
max_area_of(S) == from_dimensions(0, 0, S.h, S.w)

(***************************************************************************)
(* ui/components.py: the concrete elements.                                *)
(***************************************************************************)
\* for y in range(y, hi): self._draw_str(y, 0, line)
RECURSIVE draw_rows(_, _, _, _, _)
draw_rows(who, area, line, y, hi) ==
    IF y >= hi THEN Nothing
    ELSE Then(draw_str(who, area, y, 0, line),
              draw_rows(who, area, line, y + 1, hi))


\* A variant of noising_line that never adds the partial repetition.
noising_line_whole_repeats(token, width) ==
    LET len_token == Len(token) IN
    IF len_token = 0 THEN Repeat(<<" ">>, width)
    ELSE Repeat(token, width \div len_token)

\* Noising.draw, lines 89-96: the line built from the token.
noising_line(token, width) ==
    LET len_token == Len(token) IN
    IF len_token = 0 THEN Repeat(<<" ">>, width)
    ELSE LET ratio == width \div len_token
             repeats == IF width % len_token = 0 THEN ratio ELSE ratio + 1
             line_repeated == Repeat(token, repeats)
         IN  IF width % len_token = 0 THEN line_repeated
             ELSE Slice(line_repeated, width)

\* NoisingExpanded._token
NoisingExpanded_token(noise) == <<" ", " ", " ", " ">> \o noise

\* NoisingCompressed._token
NoisingCompressed_token(noise) == noise \o <<" ">>

\* self._token of the Noising subclass named noising.
noising_token(noising, noise) ==
    IF noising = "NoisingExpanded" THEN NoisingExpanded_token(noise)
    ELSE NoisingCompressed_token(noise)

\* NoisingExpanded.token_exceeds_width()
NoisingExpanded_token_exceeds_width == 4

\* NoisingCompressed.token_exceeds_width()
NoisingCompressed_token_exceeds_width == 1

\* Noising.draw
Noising_draw(area, noising, noise) ==
    draw_rows(noising, area,
              noising_line(noising_token(noising, noise), area.size.x),
              0, area.size.y)

\* BorderBox.draw, lines 51-53: the two side glyphs of the rows y .. hi-1.
RECURSIVE border_sides(_, _, _, _)
border_sides(area, y, hi, width) ==
    IF y >= hi THEN Nothing
    ELSE Then(draw_str("BorderBox", area, y, 0, <<"|">>),
         Then(draw_str("BorderBox", area, y, width - 1, <<"|">>),
              border_sides(area, y + 1, hi, width)))

\* BorderBox.draw, lines 44-46.
horizon_border(width) ==
    IF width >= 2 THEN <<"+">> \o Repeat(<<"-">>, Max(0, width - 2)) \o <<"+">>
    ELSE <<"+">>

\* Monitor.draw: the callback handed to BorderBox as its content, a closure
\* over the monitor's area and the filler it draws; BorderBox calls it with
\* its content area.
draw_content(content, content_area) ==
    Noising_draw(draw_sub_in_area(content.area, Some(content_area)),
                 content.noising, content.noise)

\* BorderBox.draw, lines 57-64: the inner content, content being the callback.
BorderBox_inner(area, content) ==
    LET inner_height == area.size.y - 2
        inner_width == area.size.x - 2
    IN  IF inner_height > 0 /\ inner_width > 0
        THEN draw_content(content,
                          inner_area(area, from_dimensions(1, 1, inner_height,
                                                           inner_width)))
        ELSE Nothing

\* BorderBox.draw: the whole body runs under try / except Exception: pass, so
\* what was drawn before a failure stays and the failure is dropped.
BorderBox_draw(area, content) ==
    LET height == area.size.y
        width == area.size.x
    IN  [Then(draw_str("BorderBox", area, 0, 0, horizon_border(width)),
         Then(border_sides(area, 1, height - 1, width),
         Then(draw_str("BorderBox", area, height - 1, 0, horizon_border(width)),
              BorderBox_inner(area, content))))
         EXCEPT !.exc = "none"]

SECONDS_DAY == 86400

SECONDS_HOUR == 3600

SECONDS_MINUTE == 60


\* A variant of format_time whose minute tier starts at 60 seconds.
format_time_from_60(seconds) ==
    IF seconds > SECONDS_DAY
    THEN LET days == seconds \div SECONDS_DAY
             rest == seconds % SECONDS_DAY
             hh == rest \div SECONDS_HOUR
             mm == (rest % SECONDS_HOUR) \div SECONDS_MINUTE
         IN  str_int(days) \o <<" ", "d", "a", "y", "s", " ", "a", "n", "d", " ">>
                 \o fmt_02d(hh) \o <<":">> \o fmt_02d(mm)
    ELSE IF seconds >= 60
    THEN LET hh == seconds \div SECONDS_HOUR
             mm == (seconds % SECONDS_HOUR) \div SECONDS_MINUTE
         IN  fmt_02d(hh) \o <<":">> \o fmt_02d(mm)
    ELSE str_int(seconds) \o <<"s">>

\* RemainingTime.__format_time
format_time(seconds) ==
    IF seconds > SECONDS_DAY
    THEN LET days == seconds \div SECONDS_DAY
             rest == seconds % SECONDS_DAY
             hh == rest \div SECONDS_HOUR
             mm == (rest % SECONDS_HOUR) \div SECONDS_MINUTE
         IN  str_int(days) \o <<" ", "d", "a", "y", "s", " ", "a", "n", "d", " ">>
                 \o fmt_02d(hh) \o <<":">> \o fmt_02d(mm)
    ELSE IF seconds > 60
    THEN LET hh == seconds \div SECONDS_HOUR
             mm == (seconds % SECONDS_HOUR) \div SECONDS_MINUTE
         IN  fmt_02d(hh) \o <<":">> \o fmt_02d(mm)
    ELSE str_int(seconds) \o <<"s">>

\* RemainingTime.draw, line 155: the text before the formatted time.
RemainingPrefix ==
    <<"N", "o", "i", "s", "i", "n", "g", " ", "t", "i", "m", "e", " ",
      "r", "e", "m", "a", "i", "n", "i", "n", "g", ":", " ">>

\* RemainingTime.__init__, then RemainingTime.draw.
RemainingTime_draw(area, remaining_seconds) ==
    IF require(remaining_seconds > 0, "InvalidArgument") # "none"
    THEN Raise(require(remaining_seconds > 0, "InvalidArgument"))
    ELSE draw_str("RemainingTime", area, area.size.y - 2, 0,
                  RemainingPrefix \o format_time(remaining_seconds))

\* ExitHint.draw, line 189: the hint.
ExitHintText ==
    <<"P", "r", "e", "s", "s", " ", "E", "S", "C", " ", "t", "o", " ",
      "s", "t", "o", "p">>

\* ExitHint.draw
ExitHint_draw(area) == draw_str("ExitHint", area, area.size.y - 1, 0, ExitHintText)

\* Monitor.draw, lines 219-236: the main content.
Monitor_content(area, noise) ==
    LET height == area.size.y
        width == area.size.x
        draw_border == height >= 5
        width_threshold == Len(noise) + NoisingExpanded_token_exceeds_width
                             + (IF draw_border THEN 2 ELSE 0)
        noising == IF width >= width_threshold THEN "NoisingExpanded"
                   ELSE "NoisingCompressed"
        noising_area == Rect(Vector2D(0, 0), Vector2D(height - 2, width))
    IN  IF height >= 3
        THEN IF draw_border
             THEN BorderBox_draw(draw_sub_in_area(area, Some(noising_area)),
                      [area |-> area, noising |-> noising, noise |-> noise])
             ELSE Noising_draw(draw_sub_in_area(area, Some(noising_area)),
                               noising, noise)
        ELSE Nothing

\* Monitor.draw, lines 238-242: the remaining time.
Monitor_remaining(area, rem_sec) ==
    IF area.size.y >= 2 /\ rem_sec # None
    THEN RemainingTime_draw(draw_sub_in_area(area, None), rem_sec[1])
    ELSE Nothing

\* Monitor.draw, lines 244-246: the exit hint.
Monitor_hint(area) ==
    IF area.size.y >= 1 THEN ExitHint_draw(draw_sub_in_area(area, None))
    ELSE Nothing

\* Monitor.draw
Monitor_draw(area, noise, rem_sec) ==
    Then(Monitor_content(area, noise),
    Then(Monitor_remaining(area, rem_sec),
         Monitor_hint(area)))

(***************************************************************************)
(* app.py: constants and the timer.                                        *)
(***************************************************************************)
FRAME_INTERVAL == 4     \* 0.8 s

BEEP_INTERVAL == 5      \* 1.0 s

GETCH_TIMEOUT == 1      \* stdscr.timeout(200): 200 ms

KEY_ESC == 27

KEY_MOUSE == 409        \* curses.KEY_MOUSE

NO_EVENT == -1          \* getch's "no input" result

\* One second in clock units: BEEP_INTERVAL is 1.0 s.
Second == BEEP_INTERVAL

\* What getch can return: nothing, ESC, a mouse event, another key ("q").
Keys == {NO_EVENT, KEY_ESC, KEY_MOUSE, 113}

\* The clock starts at StartClock when the App is built.
StartClock == MaxTime

MaxClock == StartClock + MaxTime * Second + ClockSlack

Later(t, d) == Min(t + d, MaxClock)

\* int(x) for the float x = num / den (den > 0): truncation towards zero.
int_trunc(num, den) == IF num >= 0 THEN num \div den ELSE -((-num) \div den)


\* A variant of remaining_seconds that rounds the remaining time up.
remaining_seconds_rounded_up(maxTime, startTime, t) ==
    IF maxTime = 0 THEN None
    ELSE Some(Max(0, (maxTime * Second - (t - startTime) + Second - 1) \div Second))

\* App.remaining_seconds, read at clock time t.
remaining_seconds(maxTime, startTime, t) ==
    IF maxTime = 0 THEN None
    ELSE Some(Max(0, int_trunc(maxTime * Second - (t - startTime), Second)))

\* The terminal sizes stdscr.getmaxyx() reports in the loop (never empty).
LoopSizes == {<<1, 3>>, <<MaxHeight - 2, MaxWidth - 2>>}

NoFrame ==
    [polled |-> FALSE, ch |-> NO_EVENT, t |-> 0, rem_computed |-> FALSE,
     rem |-> None, erased |-> FALSE, drawn |-> FALSE, refreshed |-> FALSE,
     flag_read |-> FALSE, beep |-> "none", draw_exc |-> "none"]

\* A frame that returned before stdscr.erase().
EarlyFrame(ch, t) == [NoFrame EXCEPT !.polled = TRUE, !.ch = ch, !.t = t]

Running == pc \in {"frame", "sleep"}

Stopped == pc \in {"finally", "teardown", "returned", "raised", "exited"}

(***************************************************************************)
(* The state after App.__init__ (lines 63-81), inside curses.wrapper.      *)
(***************************************************************************)
Init ==
    /\ pc = "constructed"
    /\ exc = "none"
    /\ now = StartClock
    /\ input = NO_EVENT
    /\ noise_text = <<"a", "b">>
    /\ max_time \in -1..MaxTime
    /\ sound_file_path \in {None, Some("clip.wav")}
    /\ beep_enabled = (sound_file_path = None)
    /\ start_time = None
    /\ last_beep = None
    /\ nodelay = TRUE
    /\ stdscr = NewSurface(MaxHeight - 2, MaxWidth - 2)
    /\ exit_code = None
    /\ tpc = "unstarted"
    /\ playing = FALSE
    /\ lastFrame = NoFrame
    /\ cues = <<>>
    /\ applied = [op |-> "none"]

(***************************************************************************)
(* App.mainloop, lines 106-111: the timestamps, and the playback thread    *)
(* started when a sound file was given.                                    *)
(***************************************************************************)
mainloop_start ==
    /\ pc = "constructed"
    /\ start_time' = Some(now)
    /\ last_beep' = Some(now)
    /\ tpc' = IF ~beep_enabled THEN "read" ELSE tpc
    /\ \E ch \in Keys : input' = ch
    /\ pc' = "frame"
    /\ UNCHANGED <<exc, now, noise_text, max_time, sound_file_path, beep_enabled,
                   nodelay, stdscr, exit_code, playing, lastFrame, cues, applied>>

\* How long getch blocks: the whole timeout when nothing arrives.
GetchDelays(ch) == IF ch = NO_EVENT THEN {GETCH_TIMEOUT} ELSE 0..GETCH_TIMEOUT


\* A variant of frame_esc that takes ESC for a mouse event.
frame_esc_consumed ==
    /\ pc = "frame"
    /\ input = KEY_ESC
    /\ \E dg \in GetchDelays(input) :
          /\ now' = Later(now, dg)
          /\ lastFrame' = EarlyFrame(input, now')
    /\ pc' = "sleep"
    /\ UNCHANGED <<exc, input, noise_text, max_time, sound_file_path, beep_enabled,
                   start_time, last_beep, nodelay, stdscr, exit_code, tpc, playing,
                   cues, applied>>

\* App._frame, lines 149-153: ESC ends the loop.
frame_esc ==
    /\ pc = "frame"
    /\ input = KEY_ESC
    /\ \E dg \in GetchDelays(input) :
          /\ now' = Later(now, dg)
          /\ lastFrame' = EarlyFrame(input, now')
    /\ pc' = "finally"
    /\ UNCHANGED <<exc, input, noise_text, max_time, sound_file_path, beep_enabled,
                   start_time, last_beep, nodelay, stdscr, exit_code, tpc, playing,
                   cues, applied>>

\* App._frame, lines 154-160: a mouse event is consumed and the frame ends.
frame_mouse ==
    /\ pc = "frame"
    /\ input = KEY_MOUSE
    /\ \E dg \in GetchDelays(input) :
          /\ now' = Later(now, dg)
          /\ lastFrame' = EarlyFrame(input, now')
    /\ pc' = "sleep"
    /\ UNCHANGED <<exc, input, noise_text, max_time, sound_file_path, beep_enabled,
                   start_time, last_beep, nodelay, stdscr, exit_code, tpc, playing,
                   cues, applied>>

\* A variant of time_is_up that lets a remaining time of 0 through.
time_is_up_below_zero(rem) == rem # None /\ rem[1] < 0

\* App._frame, line 163: a remaining time is set and none of it is left.
time_is_up(rem) == rem # None /\ rem[1] <= 0

\* App._frame, lines 162-164: no time remains.
frame_expired ==
    /\ pc = "frame"
    /\ input \notin {KEY_ESC, KEY_MOUSE}
    /\ \E dg \in GetchDelays(input) :
          LET t == Later(now, dg)
              rem == remaining_seconds(max_time, start_time[1], t)
          IN  /\ time_is_up(rem)
              /\ now' = t
              /\ lastFrame' = [EarlyFrame(input, t) EXCEPT !.rem_computed = TRUE,
                                                           !.rem = rem]
    /\ pc' = "finally"
    /\ UNCHANGED <<exc, input, noise_text, max_time, sound_file_path, beep_enabled,
                   start_time, last_beep, nodelay, stdscr, exit_code, tpc, playing,
                   cues, applied>>


\* A variant of beep_due that does not wait for the interval.
beep_due_every_tick(flag, t, lastBeep) == flag

\* App._frame, lines 180-187: the cue is due.
beep_due(flag, t, lastBeep) == flag /\ t - lastBeep >= BEEP_INTERVAL

\* App._frame, lines 166-189: erase, draw the Monitor over the whole surface
\* (a failure of the draw is reported and dropped), refresh, and the cue.
frame_draw ==
    /\ pc = "frame"
    /\ input \notin {KEY_ESC, KEY_MOUSE}
    /\ \E dg \in GetchDelays(input), sz \in LoopSizes, beep_ok \in BOOLEAN :
       \E t \in {Later(now, dg)} :
       \E rem \in {remaining_seconds(max_time, start_time[1], t)} :
       \E drawn \in {Monitor_draw(from_dimensions(0, 0, sz[1], sz[2]),
                                  noise_text, rem)} :
       \E due \in {beep_due(beep_enabled, t, last_beep[1])} :
          /\ ~time_is_up(rem)
          /\ now' = t
          /\ stdscr' = addstr_all(NewSurface(sz[1], sz[2]), drawn.log)
          /\ last_beep' = IF due THEN Some(t) ELSE last_beep
          /\ cues' = IF ~due THEN cues
                     ELSE IF Len(cues) = 2 THEN <<cues[2], t>>
                     ELSE Append(cues, t)
          /\ due \/ beep_ok
          /\ lastFrame' =
                [polled |-> TRUE, ch |-> input, t |-> t, rem_computed |-> TRUE,
                 rem |-> rem, erased |-> TRUE, drawn |-> drawn.exc = "none",
                 refreshed |-> TRUE, flag_read |-> beep_enabled,
                 beep |-> IF ~due THEN "none"
                          ELSE IF beep_ok THEN "ok" ELSE "failed",
                 draw_exc |-> drawn.exc]
    /\ pc' = "sleep"
    /\ UNCHANGED <<exc, input, noise_text, max_time, sound_file_path, beep_enabled,
                   start_time, nodelay, exit_code, tpc, playing, applied>>

\* App._frame
frame == frame_esc \/ frame_mouse \/ frame_expired \/ frame_draw

\* App.mainloop, line 115: time.sleep(FRAME_INTERVAL) lasts at least the
\* interval; the events of the meantime decide what getch returns next.
sleep ==
    /\ pc = "sleep"
    /\ \E d \in FRAME_INTERVAL..(FRAME_INTERVAL + 1) : now' = Later(now, d)
    /\ \E ch \in Keys : input' = ch
    /\ pc' = "frame"
    /\ UNCHANGED <<exc, noise_text, max_time, sound_file_path, beep_enabled,
                   start_time, last_beep, nodelay, stdscr, exit_code, tpc, playing,
                   lastFrame, cues, applied>>

\* An exception leaves the loop (line 114-115): an interrupt signal in a tick
\* or in the sleep, or a failure of getch / erase / refresh in a tick.
interrupt ==
    /\ Running
    /\ \E e \in {"KeyboardInterrupt", "Exception"} :
          /\ e = "Exception" => pc = "frame"
          /\ exc' = e
    /\ pc' = "finally"
    /\ UNCHANGED <<now, input, noise_text, max_time, sound_file_path, beep_enabled,
                   start_time, last_beep, nodelay, stdscr, exit_code, tpc, playing,
                   lastFrame, cues, applied>>

\* App.mainloop, lines 116-118: the finally block; a pending exception goes on
\* to the caller after it.
finally_block ==
    /\ pc = "finally"
    /\ playing' = IF ~beep_enabled THEN FALSE ELSE playing
    /\ pc' = IF exc = "none" THEN "teardown" ELSE "raised"
    /\ UNCHANGED <<exc, now, input, noise_text, max_time, sound_file_path,
                   beep_enabled, start_time, last_beep, nodelay, stdscr, exit_code,
                   tpc, lastFrame, cues, applied>>

\* App.mainloop, lines 120-124.
teardown ==
    /\ pc = "teardown"
    /\ nodelay' = FALSE
    /\ stdscr' = erase(stdscr)
    /\ pc' = "returned"
    /\ UNCHANGED <<exc, now, input, noise_text, max_time, sound_file_path,
                   beep_enabled, start_time, last_beep, exit_code, tpc, playing,
                   lastFrame, cues, applied>>

\* main, lines 251-260: curses.wrapper returns or raises, main returns its
\* exit code and the process ends, and with it the daemon thread and its audio.
main_exit ==
    /\ pc \in {"returned", "raised"}
    /\ exit_code' = Some(IF exc \in {"none", "KeyboardInterrupt"} THEN 0 ELSE 1)
    /\ tpc' = IF tpc \in {"unstarted", "done"} THEN tpc ELSE "killed"
    /\ playing' = FALSE
    /\ pc' = "exited"
    /\ UNCHANGED <<exc, now, input, noise_text, max_time, sound_file_path,
                   beep_enabled, start_time, last_beep, nodelay, stdscr, lastFrame,
                   cues, applied>>

(***************************************************************************)
(* App._play_sound_noblock.play_sound_block, lines 129-139, step by step.  *)
(***************************************************************************)
\* line 132: sf.read, which may fail.
play_read ==
    /\ tpc = "read"
    /\ \E ok \in BOOLEAN : tpc' = IF ok THEN "play" ELSE "except"
    /\ UNCHANGED <<pc, exc, now, input, noise_text, max_time, sound_file_path,
                   beep_enabled, start_time, last_beep, nodelay, stdscr, exit_code,
                   playing, lastFrame, cues, applied>>

\* lines 133-134: sd.play starts the stream and returns, or fails.
play_play ==
    /\ tpc = "play"
    /\ \E ok \in BOOLEAN :
          /\ tpc' = IF ok THEN "wait" ELSE "except"
          /\ playing' = IF ok THEN TRUE ELSE playing
    /\ UNCHANGED <<pc, exc, now, input, noise_text, max_time, sound_file_path,
                   beep_enabled, start_time, last_beep, nodelay, stdscr, exit_code,
                   lastFrame, cues, applied>>

\* The stream reaches the end of the clip.
clip_ends ==
    /\ tpc = "wait"
    /\ playing
    /\ playing' = FALSE
    /\ UNCHANGED <<pc, exc, now, input, noise_text, max_time, sound_file_path,
                   beep_enabled, start_time, last_beep, nodelay, stdscr, exit_code,
                   tpc, lastFrame, cues, applied>>

\* line 135: sd.wait returns once the stream has ended or was stopped, and the
\* while True loop goes round.
play_wait ==
    /\ tpc = "wait"
    /\ ~playing
    /\ tpc' = "read"
    /\ UNCHANGED <<pc, exc, now, input, noise_text, max_time, sound_file_path,
                   beep_enabled, start_time, last_beep, nodelay, stdscr, exit_code,
                   playing, lastFrame, cues, applied>>

\* lines 136-137: the handler's sd.stop().
play_except ==
    /\ tpc = "except"
    /\ playing' = FALSE
    /\ tpc' = "setflag"
    /\ UNCHANGED <<pc, exc, now, input, noise_text, max_time, sound_file_path,
                   beep_enabled, start_time, last_beep, nodelay, stdscr, exit_code,
                   lastFrame, cues, applied>>


\* A variant of play_setflag that goes back into the playback loop.
play_setflag_retry ==
    /\ tpc = "setflag"
    /\ beep_enabled' = TRUE
    /\ tpc' = "read"
    /\ UNCHANGED <<pc, exc, now, input, noise_text, max_time, sound_file_path,
                   start_time, last_beep, nodelay, stdscr, exit_code, playing,
                   lastFrame, cues, applied>>

\* lines 138-139: the report, the flag, and the thread's end.
play_setflag ==
    /\ tpc = "setflag"
    /\ beep_enabled' = TRUE
    /\ tpc' = "done"
    /\ UNCHANGED <<pc, exc, now, input, noise_text, max_time, sound_file_path,
                   start_time, last_beep, nodelay, stdscr, exit_code, playing,
                   lastFrame, cues, applied>>

MainNext ==
    \/ mainloop_start
    \/ frame
    \/ sleep
    \/ finally_block
    \/ teardown
    \/ main_exit

ThreadNext ==
    \/ play_read
    \/ play_play
    \/ play_wait
    \/ play_except
    \/ play_setflag

Next ==
    \/ MainNext
    \/ interrupt
    \/ ThreadNext
    \/ clip_ends

Spec == Init /\ [][Next]_vars

\* The main thread keeps running: no step of it waits on anything but the
\* clock (getch has a timeout, sleep is finite).
FairSpec == Spec /\ WF_vars(MainNext)

(***************************************************************************)
(* The element operations applied on their own, to inputs drawn from       *)
(* bounded sets, once each from the initial state.  applied records the    *)
(* operation, its inputs and its result; Painted is the surface the       *)
(* element operations are drawn on, after them.                            *)
(***************************************************************************)
Noises == StringsUpTo({"a", "b"}, MaxNoiseLen)

Texts == StringsUpTo({"x", "y"}, MaxTextLen)

\* Remaining values a Monitor is built with: unbounded, or seconds that remain.
Rems == {None, Some(1), Some(90)}

\* Seconds handed to RemainingTime: the small values, and the values around
\* the minute, hour and day boundaries.
FormatSeconds ==
    (1..130) \cup
    ({SECONDS_DAY * d + SECONDS_HOUR * h + SECONDS_MINUTE * m + sec :
        d \in 0..2, h \in {0, 1, 23}, m \in {0, 1, 59}, sec \in {0, 1, 30, 59}}
     \ {0})

\* A surface wide enough for the whole remaining-time text.
WideWidth == Len(RemainingPrefix) + 20

\* The surface the latest element operation drew on, after it.
Painted(h, w) == addstr_all(NewSurface(h, w), applied.out.log)

apply_Monitor_draw ==
    /\ applied.op = "none"
    /\ \E h \in 0..MaxHeight, w \in 0..MaxWidth, noise \in Noises, rem \in Rems :
          applied' = [op |-> "Monitor.draw", h |-> h, w |-> w, noise |-> noise,
                      rem |-> rem,
                      out |-> Monitor_draw(max_area_of(NewSurface(h, w)),
                                           noise, rem)]
    /\ UNCHANGED loopVars

apply_draw_str ==
    /\ applied.op = "none"
    /\ \E oy \in 0..1, ox \in 0..1, h \in 0..2, w \in 0..(MaxWidth \div 2) :
       \E y \in -1..h, x \in -1..w, text \in Texts :
          applied' = [op |-> "draw_str", area |-> from_dimensions(oy, ox, h, w),
                      y |-> y, x |-> x, text |-> text,
                      out |-> draw_str("element", from_dimensions(oy, ox, h, w),
                                       y, x, text)]
    /\ UNCHANGED loopVars

apply_Noising_draw ==
    /\ applied.op = "none"
    /\ \E oy \in 0..1, ox \in 0..1, h \in 0..MaxHeight, w \in 0..MaxWidth :
       \E noising \in {"NoisingExpanded", "NoisingCompressed"}, noise \in Noises :
          applied' = [op |-> "Noising.draw", area |-> from_dimensions(oy, ox, h, w),
                      noising |-> noising, noise |-> noise,
                      out |-> Noising_draw(from_dimensions(oy, ox, h, w),
                                           noising, noise)]
    /\ UNCHANGED loopVars

apply_RemainingTime_draw ==
    /\ applied.op = "none"
    /\ \E seconds \in FormatSeconds :
          applied' = [op |-> "RemainingTime.draw", seconds |-> seconds,
                      out |-> RemainingTime_draw(
                                  max_area_of(NewSurface(2, WideWidth)), seconds)]
    /\ UNCHANGED loopVars

DrawInit == Init /\ max_time = MaxTime /\ sound_file_path = None

DrawNext ==
    \/ apply_Monitor_draw
    \/ apply_draw_str
    \/ apply_Noising_draw
    \/ apply_RemainingTime_draw

DrawSpec == DrawInit /\ [][DrawNext]_vars

(***************************************************************************)
(* Properties of the render loop.                                          *)
(***************************************************************************)
\* A step in which a call of _frame runs to its return.
FrameStep == pc = "frame" /\ pc' \in {"sleep", "finally"} /\ exc' = "none"

\* At clock time t the timer of a bounded session has run out:
\* max(0, trunc(max_time - elapsed)) is 0, that is, less than one whole second
\* of max_time is left.
ExpiredAt(t) == max_time * Second - (t - start_time[1]) < Second

\* The latest frame returned before clearing, drawing, flushing or cueing.
FrameDidNothing ==
    /\ ~lastFrame.erased /\ ~lastFrame.drawn /\ ~lastFrame.refreshed
    /\ lastFrame.beep = "none"

\* C1 as stated: with max_time >= 1, a tick that polls anything but ESC at a
\* time when the remaining time is 0 takes the loop from Running to Stopped,
\* and draws nothing.
C1_StopsOnFirstExpiredTick ==
    (max_time >= 1 /\ lastFrame.polled /\ lastFrame.ch # KEY_ESC
        /\ ExpiredAt(lastFrame.t))
    => (Stopped /\ FrameDidNothing)

\* C1 as amended: with max_time >= 1, every tick that polls neither ESC nor a
\* mouse event at a time when the remaining time is 0 takes the loop to
\* Stopped without clearing or drawing (so the loop stops on the first such
\* tick); and when ticks that poll no mouse event keep coming, the loop
\* eventually is Stopped.
C1_TimerStopsLoop ==
    /\ [][(FrameStep /\ max_time >= 1 /\ input \notin {KEY_ESC, KEY_MOUSE}
             /\ ExpiredAt(now'))
          => (Stopped' /\ stdscr' = stdscr /\ cues' = cues
                /\ lastFrame'.rem = Some(0) /\ ~lastFrame'.erased
                /\ ~lastFrame'.drawn /\ ~lastFrame'.refreshed)]_vars
    /\ [][(FrameStep /\ max_time >= 1 /\ input \notin {KEY_ESC, KEY_MOUSE}
             /\ ~ExpiredAt(now'))
          => Running']_vars
    /\ ((max_time >= 1 /\ []<>(pc = "frame" /\ input # KEY_MOUSE)) => <>Stopped)

\* C1 witness: a bounded session stopped by its timer on a tick with no input.
C1_Witness ==
    /\ pc = "finally" /\ exc = "none" /\ max_time >= 1
    /\ lastFrame.polled /\ lastFrame.ch = NO_EVENT /\ lastFrame.rem = Some(0)

\* C2: a tick that polls ESC takes the loop to Stopped in that same tick,
\* whatever the remaining time and the fallback flag, and the tick neither
\* clears, draws, flushes nor cues.
C2_EscStopsImmediately ==
    [][(FrameStep /\ input = KEY_ESC)
       => (Stopped' /\ stdscr' = stdscr /\ cues' = cues /\ last_beep' = last_beep
             /\ lastFrame'.ch = KEY_ESC /\ ~lastFrame'.erased /\ ~lastFrame'.drawn
             /\ ~lastFrame'.refreshed /\ lastFrame'.beep = "none")]_vars

\* C2 witness: ESC polled when the timer had run out as well and the fallback
\* flag was set by the failed playback thread.
C2_Witness ==
    /\ pc = "finally" /\ lastFrame.polled /\ lastFrame.ch = KEY_ESC
    /\ max_time >= 1 /\ ExpiredAt(lastFrame.t)
    /\ beep_enabled /\ sound_file_path # None

\* C3 as stated: once the loop has left Running and the teardown has run, no
\* audio playback is active (so the playback task has started none since).
C3_TeardownStopsAudio ==
    pc = "returned" => ~playing

\* C4: the fallback flag starts true iff no sound file was given; it changes
\* only from false to true, in the playback thread's failure handler, which
\* ends the thread; once it is set in a session with a sound file the thread
\* is over, nothing plays and nothing starts playing again.
C4_FallbackIsLatch ==
    /\ beep_enabled = (sound_file_path = None)
    /\ [][beep_enabled' # beep_enabled
          => (~beep_enabled /\ beep_enabled' /\ tpc = "setflag" /\ tpc' = "done"
                /\ sound_file_path # None)]_vars
    /\ []((beep_enabled /\ sound_file_path # None) => (tpc = "done" /\ ~playing))
    /\ [][beep_enabled => (beep_enabled' /\ tpc' = tpc /\ ~playing')]_vars

\* C4 witness: the flag set by the failed playback thread while the loop runs,
\* and a cue emitted since.
C4_Witness ==
    /\ Running /\ sound_file_path # None /\ beep_enabled /\ tpc = "done"
    /\ lastFrame.beep = "ok"

\* C5: a tick emits a cue only when it reads the flag true and at least
\* BEEP_INTERVAL has passed since last_beep; a tick attempts at most one cue;
\* last_beep changes exactly when a cue is attempted (to the time of the
\* attempt, also when the bell fails); two consecutive cues are at least
\* BEEP_INTERVAL apart; and in a session with a sound file no cue is attempted
\* before playback has failed.
C5_CueDiscipline ==
    /\ [][FrameStep =>
            LET attempted == lastFrame'.beep # "none" IN
            /\ attempted => (beep_enabled /\ lastFrame'.flag_read
                               /\ now' - last_beep[1] >= BEEP_INTERVAL)
            /\ attempted <=> (last_beep' # last_beep)
            /\ attempted => (last_beep' = Some(now') /\ cues' # cues
                               /\ cues'[Len(cues')] = now')
            /\ ~attempted => cues' = cues
            /\ attempted => (sound_file_path = None \/ tpc = "done")]_vars
    /\ [][~FrameStep => (cues' = cues /\ (pc # "constructed" => last_beep' = last_beep))]_vars
    /\ [](Len(cues) = 2 => cues[2] - cues[1] >= BEEP_INTERVAL)
    /\ [](Len(cues) >= 1 => cues[1] - start_time[1] >= BEEP_INTERVAL)

\* C5 witness: a second cue, attempted after the playback failed, whose bell
\* failed.
C5_Witness ==
    /\ Len(cues) = 2 /\ lastFrame.beep = "failed" /\ sound_file_path # None
    /\ last_beep = Some(cues[2])

\* C6 as stated: when an exception ended the loop, the teardown is complete
\* once mainloop is left: no audio plays, input is blocking again and the
\* surface is clear.
C6_TeardownOnInterruption ==
    (pc = "raised" /\ exc # "none")
    => (~playing /\ ~nodelay /\ stdscr = erase(stdscr))

(***************************************************************************)
(* Properties of the screen elements.                                      *)
(***************************************************************************)
\* The addstr calls of the latest element operation made by one of who.
CallsBy(who) == {k \in 1..Len(applied.out.log) : applied.out.log[k].by \in who}

BandElements == {"BorderBox", "NoisingExpanded", "NoisingCompressed"}

\* C7 as stated: for every area size, noise text and remaining value,
\* Monitor.draw draws the exit hint (on row height-1) iff height >= 1, the
\* countdown (on row height-2) iff height >= 2 and remaining is not unbounded,
\* and the content band (on rows [0, height-2)) iff height >= 3, with the
\* border iff height >= 5: no section is lost to another one's failure.
C7_MonitorSectionsIndependent ==
    applied.op = "Monitor.draw" =>
        LET h == applied.h
            log == applied.out.log
        IN  /\ (CallsBy({"ExitHint"}) # {}) <=> (h >= 1)
            /\ \A k \in CallsBy({"ExitHint"}) : log[k].y = h - 1
            /\ (CallsBy({"RemainingTime"}) # {}) <=> (h >= 2 /\ applied.rem # None)
            /\ \A k \in CallsBy({"RemainingTime"}) : log[k].y = h - 2
            /\ (CallsBy(BandElements) # {}) <=> (h >= 3)
            /\ \A k \in CallsBy(BandElements) : log[k].y >= 0 /\ log[k].y < h - 2
            /\ (CallsBy({"BorderBox"}) # {}) <=> (h >= 5)

\* C8 as stated: a draw at a local position inside the element writes the
\* first min(len(text), size.col - localCol) characters of the text, at the
\* absolute position, and no cell at or beyond column offset.col + size.col;
\* a draw at a position outside fails with a bounds error and writes nothing.
C8_DrawStringClips ==
    applied.op = "draw_str" =>
        LET a == applied.area
            S == Painted(MaxHeight, MaxWidth)
            inside == /\ 0 <= applied.y /\ applied.y < a.size.y
                      /\ 0 <= applied.x /\ applied.x < a.size.x
        IN  IF inside
            THEN /\ applied.out.exc = "none"
                 /\ applied.out.log =
                      <<[by |-> "element", area |-> a,
                         y |-> a.offset.y + applied.y,
                         x |-> a.offset.x + applied.x,
                         s |-> SubSeq(applied.text, 1,
                                      Min(Len(applied.text),
                                          a.size.x - applied.x))]>>
                 /\ \A r \in 0..(S.h - 1), c \in 0..(S.w - 1) :
                       c >= a.offset.x + a.size.x => CellAt(S, r, c) = Blank
            ELSE /\ applied.out.exc = "BoundsError"
                 /\ applied.out.log = <<>>
                 /\ S = NewSurface(MaxHeight, MaxWidth)

\* The token as the claim gives it: four spaces + noise, or noise + one space.
C9_Token ==
    IF applied.noising = "NoisingExpanded"
    THEN <<" ", " ", " ", " ">> \o applied.noise
    ELSE applied.noise \o <<" ">>

\* C9: for every width >= 1 the filler writes, on every row 0 .. height-1 of
\* its area and from the area's first column, one identical line of exactly
\* width characters whose character at index i is token[i mod tokenLen].
C9_FillerLine ==
    (applied.op = "Noising.draw" /\ applied.area.size.x >= 1) =>
        LET a == applied.area
            log == applied.out.log
            S == Painted(MaxHeight + 1, MaxWidth + 1)
            n == Len(C9_Token)
        IN  /\ applied.out.exc = "none"
            /\ Len(log) = a.size.y
            /\ \A r \in 0..(a.size.y - 1) :
                  /\ log[r + 1].y = a.offset.y + r
                  /\ log[r + 1].x = a.offset.x
                  /\ Len(log[r + 1].s) = a.size.x
                  /\ \A i \in 0..(a.size.x - 1) :
                        /\ log[r + 1].s[i + 1] = C9_Token[(i % n) + 1]
                        /\ CellAt(S, a.offset.y + r, a.offset.x + i)
                             = C9_Token[(i % n) + 1]

\* C9 witness: a filler of several rows whose width is no multiple of the
\* token's length, so that the last repetition is cut.
C9_Witness ==
    /\ applied.op = "Noising.draw"
    /\ applied.area.size.y >= 2
    /\ applied.area.size.x > Len(C9_Token)
    /\ applied.area.size.x % Len(C9_Token) # 0
    /\ Len(applied.out.log) = applied.area.size.y

\* The value of a decimal numeral, and what a numeral is.
IsNumeral(t) == Len(t) >= 1 /\ \A i \in 1..Len(t) : \E d \in 1..10 : DigitChars[d] = t[i]

RECURSIVE NumeralValue(_)
NumeralValue(t) ==
    IF Len(t) = 0 THEN 0
    ELSE 10 * NumeralValue(SubSeq(t, 1, Len(t) - 1))
           + ((CHOOSE d \in 1..10 : DigitChars[d] = t[Len(t)]) - 1)

\* t is "HH:MM" for v seconds: two digits of whole hours, two of the minutes left.
IsHoursMinutes(t, v) ==
    /\ Len(t) = 5 /\ t[3] = ":"
    /\ IsNumeral(SubSeq(t, 1, 2)) /\ IsNumeral(SubSeq(t, 4, 5))
    /\ NumeralValue(SubSeq(t, 1, 2)) = v \div 3600
    /\ NumeralValue(SubSeq(t, 4, 5)) = (v % 3600) \div 60

\* The text RemainingTime.draw wrote after "Noising time remaining: ".
C10_Text ==
    SubSeq(applied.out.log[1].s, Len(RemainingPrefix) + 1,
           Len(applied.out.log[1].s))

\* The tiers of C10: "<s>s" up to 60, "HH:MM" up to 86400, and
\* "<days> days and HH:MM" above, days = s div 86400, HH:MM from s mod 86400.
C10_Tiers ==
    LET sec == applied.seconds
        t == C10_Text
    IN  /\ applied.out.exc = "none"
        /\ Len(applied.out.log) = 1
        /\ SubSeq(applied.out.log[1].s, 1, Len(RemainingPrefix)) = RemainingPrefix
        /\ IF sec <= 60
           THEN /\ Len(t) >= 2 /\ t[Len(t)] = "s"
                /\ IsNumeral(SubSeq(t, 1, Len(t) - 1))
                /\ NumeralValue(SubSeq(t, 1, Len(t) - 1)) = sec
                /\ (Len(t) = 2 \/ t[1] # "0")
           ELSE IF sec <= 86400
           THEN IsHoursMinutes(t, sec)
           ELSE /\ Len(t) >= 16
                /\ IsNumeral(SubSeq(t, 1, Len(t) - 15))
                /\ t[1] # "0"
                /\ NumeralValue(SubSeq(t, 1, Len(t) - 15)) = sec \div 86400
                /\ SubSeq(t, Len(t) - 14, Len(t) - 5)
                     = <<" ", "d", "a", "y", "s", " ", "a", "n", "d", " ">>
                /\ IsHoursMinutes(SubSeq(t, Len(t) - 4, Len(t)), sec % 86400)

\* C10 as stated: the tiers, and s=45 gives "45s", s=90 gives "01:30" and
\* s=90000 gives "1 days and 01:00".
C10_FormatAsStated ==
    applied.op = "RemainingTime.draw" =>
        /\ C10_Tiers
        /\ applied.seconds = 45 => C10_Text = <<"4", "5", "s">>
        /\ applied.seconds = 90 => C10_Text = <<"0", "1", ":", "3", "0">>
        /\ applied.seconds = 90000 =>
              C10_Text = <<"1", " ", "d", "a", "y", "s", " ", "a", "n", "d", " ",
                           "0", "1", ":", "0", "0">>

\* C10 as amended: the tiers, HH being whole hours and MM the minutes left,
\* and s=45 gives "45s", s=90 gives "00:01" and s=90000 gives
\* "1 days and 01:00".
C10_Format ==
    applied.op = "RemainingTime.draw" =>
        /\ C10_Tiers
        /\ applied.seconds = 45 => C10_Text = <<"4", "5", "s">>
        /\ applied.seconds = 90 => C10_Text = <<"0", "0", ":", "0", "1">>
        /\ applied.seconds = 90000 =>
              C10_Text = <<"1", " ", "d", "a", "y", "s", " ", "a", "n", "d", " ",
                           "0", "1", ":", "0", "0">>

\* C10 witness: the countdown drawn for 90 seconds.
C10_Witness ==
    /\ applied.op = "RemainingTime.draw" /\ applied.seconds = 90
    /\ Len(applied.out.log) = 1

(***************************************************************************)
(* The frames the loop renders.                                            *)
(***************************************************************************)

\* A frame that got as far as handing the remaining time to a Monitor.
FrameRendered == lastFrame.polled /\ lastFrame.erased

\* C11: in every tick that renders, whatever max_time is (0 and negative
\* values included) and whatever the clock reads, the remaining value handed
\* to Monitor is the unbounded sentinel or an integer >= 1, and the draw of
\* that frame does not fail with InvalidArgument (the countdown element's
\* precondition).
C11_RemainingPrecondition ==
    FrameRendered =>
        /\ lastFrame.rem_computed
        /\ lastFrame.rem = None \/ lastFrame.rem[1] >= 1
        /\ (lastFrame.rem = None) <=> (max_time = 0)
        /\ lastFrame.draw_exc # "InvalidArgument"

\* C11 witness: a frame rendered with one second left on a surface high
\* enough for the countdown element to be constructed and drawn.
C11_Witness ==
    /\ FrameRendered /\ lastFrame.rem = Some(1) /\ lastFrame.drawn
    /\ stdscr.h >= 2
    /\ \E k \in 1..Len(stdscr.log) : stdscr.log[k].by = "RemainingTime"

\* The filler elements.
Fillers == {"NoisingExpanded", "NoisingCompressed"}

\* The latest element operation is the Monitor of a frame: drawn over the
\* whole of a surface of at least one row and one column, at offset (0,0).
FrameMonitor == applied.op = "Monitor.draw" /\ applied.h >= 1 /\ applied.w >= 1

\* A Rect of non-negative size that lies inside a surface of h rows, w columns.
RectInside(r, h, w) ==
    /\ r.size.y >= 0 /\ r.size.x >= 0
    /\ r.offset.y >= 0 /\ r.offset.x >= 0
    /\ r.offset.y + r.size.y <= h
    /\ r.offset.x + r.size.x <= w

\* C12: in every frame the loop renders (Monitor over the full surface at
\* offset (0,0), height >= 1, width >= 1) every element's absolute Rect has
\* non-negative size and lies inside the surface, every written cell lies
\* inside the surface, the filler writes only rows [0, height-2) and, when
\* the border is drawn (height >= 5), only cells strictly inside the border
\* frame (rows 1..height-4, columns 1..width-2), and rows height-2 and
\* height-1 are written only by the countdown and the exit hint respectively.
C12_FrameRegions ==
    FrameMonitor =>
        LET h == applied.h
            w == applied.w
            log == applied.out.log
        IN  \A k \in 1..Len(log) :
               LET call == log[k]
                   last == call.x + Len(call.s) - 1
               IN  /\ RectInside(call.area, h, w)
                   /\ 0 <= call.y /\ call.y < h
                   /\ 0 <= call.x /\ last < w
                   /\ call.by \in Fillers =>
                         /\ call.y < h - 2
                         /\ h >= 5 => /\ 1 <= call.y /\ call.y <= h - 4
                                      /\ 1 <= call.x /\ last <= w - 2
                   /\ call.y = h - 2 => call.by = "RemainingTime"
                   /\ call.y = h - 1 => call.by = "ExitHint"

\* C12 witness: a frame with the border, the filler inside it, the countdown
\* and the exit hint all drawn.
C12_Witness ==
    /\ FrameMonitor /\ applied.h >= 5 /\ applied.w >= 3
    /\ applied.out.exc = "none"
    /\ CallsBy(Fillers) # {} /\ CallsBy({"BorderBox"}) # {}
    /\ CallsBy({"RemainingTime"}) # {} /\ CallsBy({"ExitHint"}) # {}

====
